---- MODULE Spec2Model ----
(***************************************************************************)
(* bcrypt_pbkdf as implemented in Sources/CCitadelBcrypt/bcrypt-kdf.c.     *)
(*                                                                         *)
(* The model follows one thread of control through the two entry points of *)
(* the file: citadel_set_crypto_hash_sha512 and citadel_bcrypt_pbkdf.  The *)
(* injected SHA-512 backend and the Blowfish primitives of blf.h are kept  *)
(* symbolic: a digest is the term "backend f applied to message m", and a  *)
(* 32-byte bcrypt_hash result is the term "bcrypt_hash of (sha2pass,       *)
(* sha2salt)".  A 32-byte block is the set of bcrypt_hash terms whose XOR  *)
(* it is (XOR is symmetric difference; the empty set is the zero block).   *)
(***************************************************************************)
EXTENDS Integers, Sequences, FiniteSets

----------------------------------------------------------------------------
\* Bounds of the model.
MaxRounds == 3
MaxKeyLen == 68

\* Program constants.
BCRYPT_WORDS == 8
BCRYPT_HASHSIZE == BCRYPT_WORDS * 4
MaxKeyBytes == BCRYPT_HASHSIZE * BCRYPT_HASHSIZE      \* sizeof(out) * sizeof(out)
MaxSaltLen == 1048576                                 \* 1<<20
GetentropyMax == 256                                  \* getentropy(2) fails with EIO above this

NULL == 0
HashFuns == {1, 2}
Platforms == {"apple", "other"}

\* A byte string handed in by the caller: its content (an opaque id, 0 for
\* the empty string) and its length.
Bytes(id, len) == [id |-> id, len |-> len]
NoBytes == Bytes(0, 0)

Passwords == {NoBytes, Bytes(1, 8)}
Salts == {NoBytes, Bytes(2, 4), Bytes(3, MaxSaltLen), Bytes(4, MaxSaltLen + 1)}
KeyLens == (0 .. MaxKeyLen) \cup {97, 129, GetentropyMax, GetentropyMax + 1, 513,
                                  MaxKeyBytes - 1, MaxKeyBytes, MaxKeyBytes + 1}
RoundsSet == 0 .. MaxRounds

----------------------------------------------------------------------------
\* Values.

\* The message handed to the hash backend: data || ctr || blk.
Msg(data, ctr, blk) == [data |-> data, ctr |-> ctr, blk |-> blk]

\* The 64-byte digest the backend f writes for message m.
Sha512(f, m) == [f |-> f, m |-> m]

\* A fixed-size local buffer: indeterminate until first written (init =
\* FALSE), then the XOR of the terms in x.  All-zero is init with x = {}.
Garbage == [init |-> FALSE, x |-> {}]
Zeroed == [init |-> TRUE, x |-> {}]
Holds(t) == [init |-> TRUE, x |-> {t}]

Xor(a, b) == (a \ b) \cup (b \ a)

\* One byte of the caller's key buffer.
CallerByte == [src |-> "caller", blk |-> {}, i |-> 0]
RandomByte == [src |-> "random", blk |-> {}, i |-> 0]
OutByte(blk, i) == [src |-> "kdf", blk |-> blk, i |-> i]

\* uint32 counter serialised as in countsalt[saltlen + 0 .. saltlen + 3].
CounterBytes(count) ==
    << (count \div 16777216) % 256, (count \div 65536) % 256,
       (count \div 256) % 256, count % 256 >>

----------------------------------------------------------------------------
\* State.

VARIABLES
    hashFun,      \* the global citadel_crypto_hash_sha512 (NULL until set)
    platform,     \* which branch of #ifdef __APPLE__ the build took
    pc,           \* position of the thread inside citadel_bcrypt_pbkdf
    pass, salt,   \* the byte strings (pass, passlen) and (salt, saltlen)
    rounds,       \* parameter rounds
    keylen,       \* parameter keylen, decremented by the loop
    origkeylen,   \* local origkeylen
    key,          \* the caller's buffer key[0 .. origkeylen-1]
    sha2pass, sha2salt, out, tmpout,   \* the four stack buffers
    countsalt,    \* the heap buffer: [st, data, ctr]
    stride, amt, count, i,             \* the loop's locals
    ret,          \* the value returned (meaningful when pc = "done")
    bhFrame,      \* what bcrypt_hash's locals held when it last returned
    hashCalls,    \* history: calls through citadel_crypto_hash_sha512 in this call
    bhashCalls,   \* history: calls of bcrypt_hash in this call
    itHash, itBhash,  \* history: the same, within the current outer iteration
    wcnt,         \* history: how often the assembly loop wrote key[d]
    oob,          \* history: destinations >= origkeylen the assembly loop wrote
    trace,        \* history: per round of the current block, [salt, res]
    hist,         \* history: per finished outer iteration, what it did
    prev          \* history: arguments, backend and key of an earlier successful call

frame == << pass, salt, rounds, keylen, origkeylen, key, sha2pass, sha2salt,
            out, tmpout, countsalt, stride, amt, count, i, ret, bhFrame >>
history == << hashCalls, bhashCalls, itHash, itBhash, wcnt, oob, trace, hist >>
vars == << hashFun, platform, pc, frame, history, prev >>

NoHeap == [st |-> "none", data |-> NoBytes, ctr |-> << 0, 0, 0, 0 >>]
NoFrame == [ciphertext |-> Garbage.init, cdata |-> Garbage.init, state |-> Garbage.init]
NoPrev == [set |-> FALSE, f |-> NULL, pass |-> NoBytes, salt |-> NoBytes,
           rounds |-> 0, keylen |-> 0, key |-> << >>]

Init ==
    /\ hashFun = NULL
    /\ platform \in Platforms
    /\ pc = "idle"
    /\ pass = NoBytes /\ salt = NoBytes /\ rounds = 0
    /\ keylen = 0 /\ origkeylen = 0
    /\ key = << >>
    /\ sha2pass = Garbage /\ sha2salt = Garbage
    /\ out = Garbage /\ tmpout = Garbage
    /\ countsalt = NoHeap
    /\ stride = 0 /\ amt = 0 /\ count = 0 /\ i = 0
    /\ ret = 0
    /\ bhFrame = NoFrame
    /\ hashCalls = 0 /\ bhashCalls = 0 /\ itHash = 0 /\ itBhash = 0
    /\ wcnt = << >> /\ oob = {}
    /\ trace = << >> /\ hist = << >>
    /\ prev = NoPrev

----------------------------------------------------------------------------
\* citadel_set_crypto_hash_sha512(hash_fun)
citadel_set_crypto_hash_sha512(f) ==
    /\ pc = "idle"
    /\ hashFun' = f
    /\ UNCHANGED << platform, pc, frame, history, prev >>

\* A caller enters citadel_bcrypt_pbkdf(pass, passlen, salt, saltlen, key,
\* keylen, rounds).  The locals are indeterminate; origkeylen = keylen.
Enter(p, s, k, r) ==
    /\ pc = "idle"
    /\ pc' = "check"
    /\ pass' = p /\ salt' = s /\ rounds' = r
    /\ keylen' = k /\ origkeylen' = k
    /\ key' = [d \in 0 .. k - 1 |-> CallerByte]
    /\ sha2pass' = Garbage /\ sha2salt' = Garbage
    /\ out' = Garbage /\ tmpout' = Garbage
    /\ countsalt' = NoHeap
    /\ stride' = 0 /\ amt' = 0 /\ count' = 0 /\ i' = 0
    /\ ret' = 0
    /\ bhFrame' = NoFrame
    /\ hashCalls' = 0 /\ bhashCalls' = 0 /\ itHash' = 0 /\ itBhash' = 0
    /\ wcnt' = [d \in 0 .. k - 1 |-> 0] /\ oob' = {}
    /\ trace' = << >> /\ hist' = << >>
    /\ UNCHANGED << hashFun, platform, prev >>

Call == \E p \in Passwords, s \in Salts, k \in KeyLens, r \in RoundsSet :
            Enter(p, s, k, r)

\* Variant of Invalid: the key-length limit compared with >= instead of >.
InvalidAtLimit ==
    \/ rounds < 1
    \/ pass.len = 0 \/ salt.len = 0 \/ keylen = 0
    \/ keylen >= MaxKeyBytes \/ salt.len > MaxSaltLen

\* "nothing crazy": the two if statements that goto bad.
Invalid ==
    \/ rounds < 1
    \/ pass.len = 0 \/ salt.len = 0 \/ keylen = 0
    \/ keylen > MaxKeyBytes \/ salt.len > MaxSaltLen

\* Variant of Validate: the password is collapsed before the checks.
ValidateAfterHash ==
    /\ pc = "check"
    /\ hashCalls' = hashCalls + 1
    /\ pc' = IF Invalid THEN "bad" ELSE "alloc"
    /\ UNCHANGED << hashFun, platform, frame, bhashCalls, itHash, itBhash,
                    wcnt, oob, trace, hist, prev >>

Validate ==
    /\ pc = "check"
    /\ pc' = IF Invalid THEN "bad" ELSE "alloc"
    /\ UNCHANGED << hashFun, platform, frame, history, prev >>

\* calloc(1, saltlen + 4) returns NULL: goto bad.
AllocFail ==
    /\ pc = "alloc"
    /\ countsalt' = [NoHeap EXCEPT !.st = "null"]
    /\ pc' = "bad"
    /\ UNCHANGED << hashFun, platform, pass, salt, rounds, keylen, origkeylen,
                    key, sha2pass, sha2salt, out, tmpout, stride, amt, count,
                    i, ret, bhFrame, history, prev >>

CeilDiv(a, b) == (a + b - 1) \div b

\* calloc succeeds; stride and amt are computed; the salt is copied in.
AllocOk ==
    /\ pc = "alloc"
    /\ stride' = CeilDiv(keylen, BCRYPT_HASHSIZE)
    /\ amt' = CeilDiv(keylen, stride')
    /\ countsalt' = [st |-> "live", data |-> salt, ctr |-> << 0, 0, 0, 0 >>]
    /\ pc' = "prehash"
    /\ UNCHANGED << hashFun, platform, pass, salt, rounds, keylen, origkeylen,
                    key, sha2pass, sha2salt, out, tmpout, count, i, ret,
                    bhFrame, history, prev >>

\* A call through citadel_crypto_hash_sha512 while it is still NULL: the
\* process dies on the call instruction and citadel_bcrypt_pbkdf never returns.
NullHashCall ==
    /\ pc = "prehash"
    /\ hashFun = NULL
    /\ pc' = "crashed"
    /\ UNCHANGED << hashFun, platform, frame, history, prev >>

\* "collapse password": citadel_crypto_hash_sha512(sha2pass, pass, passlen),
\* then the for statement's initialisation count = 1.
PreHash ==
    /\ pc = "prehash"
    /\ hashFun # NULL
    /\ sha2pass' = Holds(Sha512(hashFun, Msg(pass, << >>, {})))
    /\ hashCalls' = hashCalls + 1
    /\ count' = 1
    /\ pc' = "loop"
    /\ UNCHANGED << hashFun, platform, pass, salt, rounds, keylen, origkeylen,
                    key, sha2salt, out, tmpout, countsalt, stride, amt, i, ret,
                    bhFrame, bhashCalls, itHash, itBhash, wcnt, oob, trace,
                    hist, prev >>

\* The for statement's condition keylen > 0.
LoopTest ==
    /\ pc = "loop"
    /\ pc' = IF keylen > 0 THEN "first" ELSE "zap"
    /\ UNCHANGED << hashFun, platform, frame, history, prev >>

\* bcrypt_hash(sha2pass, sha2salt, out): the Blowfish state is keyed from the
\* two digests, the magic string is encrypted 64 times under it and copied
\* out, and the three locals are zeroed with explicit_bzero.  The result is a
\* function of the two digests alone.
ExpensiveHash(sp, ss) == [pass |-> sp.x, salt |-> ss.x]

bcrypt_hash(sp, ss) ==
    LET keyed == [ciphertext |-> TRUE, cdata |-> TRUE, state |-> TRUE]
        zapped == [f \in DOMAIN keyed |-> FALSE]
    IN  [out |-> Holds(ExpensiveHash(sp, ss)), locals |-> zapped]

\* What a read of a 32-byte stack buffer that was never written may yield.
Indeterminate == { {}, {[pass |-> {}, salt |-> {}]} }

\* Variant of CopyBlock: src is XORed into dst instead of copied over it.
XorBlock(dst, src) ==
    { [init |-> TRUE, x |-> Xor(g, src.x)] :
          g \in IF dst.init THEN {dst.x} ELSE Indeterminate }

\* memcpy(dst, src, sizeof(dst)): dst becomes src whatever it held.
CopyBlock(dst, src) == {src}

\* Lines 118-127: the counter is stored big-endian behind the salt, countsalt
\* is hashed into sha2salt, bcrypt_hash fills tmpout, tmpout is copied to out.
\* Then the inner for statement's initialisation i = 1.
FirstRound ==
    /\ pc = "first"
    /\ LET cs == [countsalt EXCEPT !.ctr = CounterBytes(count)]
           ss == Holds(Sha512(hashFun, Msg(cs.data, cs.ctr, {})))
           bh == bcrypt_hash(sha2pass, ss)
       IN  /\ countsalt' = cs
           /\ sha2salt' = ss
           /\ tmpout' = bh.out
           /\ out' \in CopyBlock(out, bh.out)
           /\ bhFrame' = bh.locals
           /\ trace' = << [salt |-> ss, res |-> bh.out] >>
    /\ i' = 1
    /\ hashCalls' = hashCalls + 1 /\ bhashCalls' = bhashCalls + 1
    /\ itHash' = 1 /\ itBhash' = 1
    /\ pc' = "rounds"
    /\ UNCHANGED << hashFun, platform, pass, salt, rounds, keylen, origkeylen,
                    key, sha2pass, stride, amt, count, ret, wcnt, oob, hist,
                    prev >>

\* Variant of RoundSalt: the accumulated out is hashed instead of tmpout.
RoundSaltFromOut == Holds(Sha512(hashFun, Msg(NoBytes, << >>, out.x)))

\* The digest a later round uses as its salt: SHA-512 of tmpout.
RoundSalt == Holds(Sha512(hashFun, Msg(NoBytes, << >>, tmpout.x)))

\* Variant of MoreRounds: i <= rounds.
MoreRoundsInclusive == i <= rounds

\* The inner for statement's condition.
MoreRounds == i < rounds

\* Lines 129-135, one pass of the inner loop body with i < rounds.
NextRound ==
    /\ pc = "rounds"
    /\ MoreRounds
    /\ LET ss == RoundSalt
           bh == bcrypt_hash(sha2pass, ss)
       IN  /\ sha2salt' = ss
           /\ tmpout' = bh.out
           /\ out' = [init |-> TRUE, x |-> Xor(out.x, bh.out.x)]
           /\ bhFrame' = bh.locals
           /\ trace' = Append(trace, [salt |-> ss, res |-> bh.out])
    /\ i' = i + 1
    /\ hashCalls' = hashCalls + 1 /\ bhashCalls' = bhashCalls + 1
    /\ itHash' = itHash + 1 /\ itBhash' = itBhash + 1
    /\ UNCHANGED << hashFun, platform, pc, pass, salt, rounds, keylen,
                    origkeylen, key, sha2pass, countsalt, stride, amt, count,
                    ret, wcnt, oob, hist, prev >>

\* The inner loop's condition fails.
RoundsDone ==
    /\ pc = "rounds"
    /\ ~ MoreRounds
    /\ pc' = "assemble"
    /\ UNCHANGED << hashFun, platform, frame, history, prev >>

MINIMUM(a, b) == IF a < b THEN a ELSE b

\* Variant of Dest: the blocks laid out one after the other.
DestLinear(n) == (count - 1) * BCRYPT_HASHSIZE + n

\* size_t dest = i * stride + (count - 1), for i = n.
Dest(n) == n * stride + (count - 1)

\* Variant of Stops: no break on dest >= origkeylen.
StopsNoBreak(n, a) == n >= a

\* Whether the assembly loop leaves at index n: the condition i < amt fails,
\* or dest >= origkeylen breaks.
Stops(n, a) == n >= a \/ Dest(n) >= origkeylen

\* for (i = 0; i < amt; i++) { dest = ...; if (dest >= origkeylen) break;
\* key[dest] = out[i]; } run from index n with limit a; the state is
\* [i, key, stores, wcnt, oob], stores counting the assignments to key.
RECURSIVE AssemblyLoop(_, _, _)
AssemblyLoop(n, a, st) ==
    IF Stops(n, a)
    THEN [st EXCEPT !.i = n]
    ELSE LET dest == Dest(n)
         IN  AssemblyLoop(n + 1, a,
                 [st EXCEPT !.key = IF dest \in DOMAIN st.key
                                    THEN [st.key EXCEPT ![dest] = OutByte(out.x, n)]
                                    ELSE st.key,
                            !.stores = @ + 1,
                            !.wcnt = IF dest \in DOMAIN st.wcnt
                                     THEN [st.wcnt EXCEPT ![dest] = @ + 1]
                                     ELSE st.wcnt,
                            !.oob = IF dest \in DOMAIN st.key
                                    THEN st.oob ELSE st.oob \cup {dest}])

\* Variant of Consumed: keylen -= amt.
ConsumedAmt(n, a) == a

\* What the for statement subtracts from keylen after the assembly loop.
Consumed(n, a) == n

\* Lines 140-147 and the for statement's count++.
Assemble ==
    /\ pc = "assemble"
    /\ LET a == MINIMUM(amt, keylen)
           r == AssemblyLoop(0, a, [i |-> 0, key |-> key, stores |-> 0,
                                   wcnt |-> wcnt, oob |-> oob])
       IN  /\ amt' = a
           /\ i' = r.i
           /\ key' = r.key
           /\ wcnt' = r.wcnt
           /\ oob' = r.oob
           /\ keylen' = keylen - Consumed(r.i, a)
           /\ hist' = Append(hist, [count |-> count, out |-> out.x, amt |-> a,
                                    written |-> r.i,
                                    stores |-> r.stores,
                                    before |-> keylen, amt0 |-> amt,
                                    dec |-> keylen - keylen',
                                    hashes |-> itHash, bhashes |-> itBhash,
                                    rounds |-> Len(trace)])
    /\ count' = count + 1
    /\ pc' = "loop"
    /\ UNCHANGED << hashFun, platform, pass, salt, rounds, origkeylen,
                    sha2pass, sha2salt, out, tmpout, countsalt, stride, ret,
                    bhFrame, hashCalls, bhashCalls, itHash, itBhash, trace,
                    prev >>

\* "zap": free(countsalt) (the freezero is commented out), explicit_bzero of
\* out and tmpout, return 0.
Zap ==
    /\ pc = "zap"
    /\ countsalt' = [countsalt EXCEPT !.st = "freed"]
    /\ out' = Zeroed
    /\ tmpout' = Zeroed
    /\ ret' = 0
    /\ pc' = "done"
    /\ UNCHANGED << hashFun, platform, pass, salt, rounds, keylen, origkeylen,
                    key, sha2pass, sha2salt, stride, amt, count, i, bhFrame,
                    history, prev >>

\* arc4random_buf(buf, n) always fills n bytes.  getentropy(buf, n) fills n
\* bytes when n <= 256 and otherwise fails with EIO, leaving buf untouched;
\* its return value is not looked at.
RandomFill(buf, n) ==
    IF platform = "apple" \/ n <= GetentropyMax
    THEN [d \in DOMAIN buf |-> IF d < n THEN RandomByte ELSE buf[d]]
    ELSE buf

\* bad: overwrite key with random bytes, return -1.
Bad ==
    /\ pc = "bad"
    /\ key' = RandomFill(key, keylen)
    /\ ret' = -1
    /\ pc' = "done"
    /\ UNCHANGED << hashFun, platform, pass, salt, rounds, keylen, origkeylen,
                    sha2pass, sha2salt, out, tmpout, countsalt, stride, amt,
                    count, i, bhFrame, history, prev >>

\* What the caller holds after a successful call.
Result == [set |-> TRUE, f |-> hashFun, pass |-> pass, salt |-> salt,
           rounds |-> rounds, keylen |-> origkeylen, key |-> key]

\* The return: the stack frame is gone.
Leave ==
    /\ pc = "done"
    /\ pc' = "idle"
    /\ pass' = NoBytes /\ salt' = NoBytes /\ rounds' = 0
    /\ keylen' = 0 /\ origkeylen' = 0
    /\ key' = << >>
    /\ sha2pass' = Garbage /\ sha2salt' = Garbage
    /\ out' = Garbage /\ tmpout' = Garbage
    /\ countsalt' = NoHeap
    /\ stride' = 0 /\ amt' = 0 /\ count' = 0 /\ i' = 0
    /\ ret' = 0
    /\ bhFrame' = NoFrame
    /\ hashCalls' = 0 /\ bhashCalls' = 0 /\ itHash' = 0 /\ itBhash' = 0
    /\ wcnt' = << >> /\ oob' = {}
    /\ trace' = << >> /\ hist' = << >>
    /\ UNCHANGED << hashFun, platform >>

Return == Leave /\ UNCHANGED prev

SetHash == \E f \in HashFuns \cup {NULL} : citadel_set_crypto_hash_sha512(f)

Next ==
    \/ SetHash
    \/ Call
    \/ Validate
    \/ AllocFail
    \/ AllocOk
    \/ NullHashCall
    \/ PreHash
    \/ LoopTest
    \/ FirstRound
    \/ NextRound
    \/ RoundsDone
    \/ Assemble
    \/ Zap
    \/ Bad
    \/ Return

Spec == Init /\ [][Next]_vars

----------------------------------------------------------------------------
\* The same program with the caller remembering what the last successful call
\* gave, over a smaller set of arguments.

PasswordsDet == {NoBytes, Bytes(1, 8)}
SaltsDet == {NoBytes, Bytes(2, 4)}
KeyLensDet == {0, 1, 33}

CallDet == \E p \in PasswordsDet, s \in SaltsDet, k \in KeyLensDet, r \in RoundsSet :
               Enter(p, s, k, r)

\* The caller may keep the key of any successful call for later comparison.
ReturnDet == Leave /\ (prev' = prev \/ (ret = 0 /\ prev' = Result))

NextDet ==
    \/ SetHash
    \/ CallDet
    \/ Validate
    \/ AllocFail
    \/ AllocOk
    \/ NullHashCall
    \/ PreHash
    \/ LoopTest
    \/ FirstRound
    \/ NextRound
    \/ RoundsDone
    \/ Assemble
    \/ Zap
    \/ Bad
    \/ ReturnDet

SpecDet == Init /\ [][NextDet]_vars

----------------------------------------------------------------------------
\* Properties.

Succeeded == pc = "done" /\ ret = 0
Failed == pc = "done" /\ ret = -1

\* ceil(origkeylen / 32), stated without the division the code uses.
Blocks == CHOOSE n \in 0 .. origkeylen :
              32 * (n - 1) < origkeylen /\ origkeylen <= 32 * n

\* C1: the call returns -1 if and only if rounds < 1, or passlen = 0, or
\* saltlen = 0, or keylen = 0, or keylen > 1024, or saltlen > 2^20, or calloc
\* returned NULL; on every other input it returns 0.
C1_FailsIffInvalidOrNoMemory ==
    pc = "done" =>
        /\ ret \in {0, -1}
        /\ ret = -1 <=>
              \/ rounds < 1
              \/ pass.len = 0
              \/ salt.len = 0
              \/ origkeylen = 0
              \/ origkeylen > 1024
              \/ salt.len > 1048576
              \/ countsalt.st = "null"

C1_Witness ==
    /\ Succeeded
    /\ origkeylen = 1024
    /\ salt.len = 1048576

\* C2: when the call fails, every one of the keylen bytes of key has been
\* overwritten with random bytes, whatever keylen is.
C2_FailureRandomisesWholeKey ==
    Failed => \A d \in 0 .. origkeylen - 1 : key[d].src = "random"

\* C3: on success each index 0 .. keylen-1 has been written exactly once by
\* the assembly loop, and no index >= keylen is ever written.
C3_EachIndexWrittenOnce ==
    /\ oob = {}
    /\ \A d \in DOMAIN wcnt : wcnt[d] <= 1
    /\ Succeeded => \A d \in 0 .. origkeylen - 1 :
                        wcnt[d] = 1 /\ key[d].src = "kdf"

C3_Witness ==
    /\ Succeeded
    /\ origkeylen = 67
    /\ \E k \in 1 .. Len(hist) : hist[k].written < hist[k].amt

\* C5: with stride = ceil(keylen / 32), key[i*stride + (c-1)] is byte i of
\* block c's XOR-accumulated output, for every block c and every i whose
\* destination lies inside the key.
C5_Interleaving ==
    Succeeded =>
        /\ Len(hist) = Blocks
        /\ \A c \in 1 .. Blocks : \A n \in 0 .. 31 :
               n * Blocks + (c - 1) < origkeylen =>
                   key[n * Blocks + (c - 1)] = OutByte(hist[c].out, n)

C5_Witness ==
    /\ Succeeded
    /\ origkeylen = 64
    /\ hist[1].out # hist[2].out
    /\ \A n \in 0 .. 31 : /\ key[2 * n] = OutByte(hist[1].out, n)
                          /\ key[2 * n + 1] = OutByte(hist[2].out, n)

\* The caller repeats the arguments of the remembered successful call.
SameArguments ==
    /\ prev.set
    /\ prev.pass = pass /\ prev.salt = salt
    /\ prev.rounds = rounds /\ prev.keylen = origkeylen

\* C4: two successful calls with equal (password, salt, rounds, keyLength)
\* write identical keys, whatever calls of citadel_bcrypt_pbkdf and
\* citadel_set_crypto_hash_sha512 came before and between them.
C4_SameArgumentsSameKey ==
    (Succeeded /\ SameArguments) => key = prev.key

\* C4 as amended: two successful calls with equal arguments made while the
\* same hash backend is installed write identical keys.
C4_SameArgumentsAndBackendSameKey ==
    (Succeeded /\ SameArguments /\ prev.f = hashFun) => key = prev.key

C4_Witness ==
    /\ Succeeded /\ SameArguments /\ prev.f = hashFun
    /\ rounds = 2 /\ origkeylen = 33
    /\ key = prev.key

\* A buffer that has been written holds only zeros.
Wiped(b) == b.init => b.x = {}

\* C6: at every return, every sensitive buffer the call has populated holds
\* only zeros: sha2pass, sha2salt, countsalt, out, tmpout, and bcrypt_hash's
\* cipher state, word array and magic-string copy.
C6_AllBuffersWipedAtReturn ==
    pc = "done" =>
        /\ Wiped(sha2pass) /\ Wiped(sha2salt)
        /\ Wiped(out) /\ Wiped(tmpout)
        /\ countsalt.st \in {"live", "freed"} =>
               countsalt.data = NoBytes /\ countsalt.ctr = << 0, 0, 0, 0 >>
        /\ ~ bhFrame.state /\ ~ bhFrame.cdata /\ ~ bhFrame.ciphertext

\* C7: a failing call fails before any derivation work (no call of the hash
\* backend, none of bcrypt_hash, no derived byte in key) and leaves no heap
\* buffer allocated; once the hash backend has been called the call can only
\* end in success.
C7_FailFastAllOrNothing ==
    /\ (pc = "bad" \/ Failed) =>
           /\ hashCalls = 0 /\ bhashCalls = 0
           /\ \A d \in DOMAIN key : key[d].src # "kdf"
           /\ countsalt.st \in {"none", "null"}
    /\ hashCalls > 0 => pc # "bad" /\ (pc = "done" => ret = 0)

C7_Witness ==
    /\ Failed
    /\ countsalt.st = "null"
    /\ origkeylen = 64

\* C8: in every outer iteration the remaining key length is decremented by
\* amt = min(previous amt, remaining key length), and amt is the number of
\* bytes written to key in that iteration.
C8_DecrementIsAmt ==
    \A k \in 1 .. Len(hist) :
        /\ hist[k].amt = MINIMUM(hist[k].amt0, hist[k].before)
        /\ hist[k].dec = hist[k].amt
        /\ hist[k].stores = hist[k].amt

\* C8 as amended: in every outer iteration the remaining key length is
\* decremented by the number of bytes written to key in that iteration; this
\* number is at most amt = min(previous amt, remaining key length), and is
\* smaller only when the destination of the next byte would be >= keyLength.
C8_DecrementIsBytesWritten ==
    \A k \in 1 .. Len(hist) :
        /\ hist[k].amt = MINIMUM(hist[k].amt0, hist[k].before)
        /\ hist[k].dec = hist[k].stores
        /\ hist[k].stores <= hist[k].amt
        /\ hist[k].stores < hist[k].amt =>
               hist[k].stores * Blocks + (k - 1) >= origkeylen

C8_Witness ==
    /\ Succeeded
    /\ \E k \in 1 .. Len(hist) :
           /\ hist[k].stores < hist[k].amt
           /\ hist[k].dec = hist[k].stores

\* C9: for valid input the outer loop runs exactly ceil(keyLength / 32)
\* times, with block counter 1, 2, ..., each iteration writing at least one
\* byte and making exactly `rounds` calls of bcrypt_hash and of the hash
\* backend; the whole call makes 1 + stride * rounds calls of the backend.
C9_IterationsAndHashCalls ==
    /\ Len(hist) <= Blocks
    /\ \A k \in 1 .. Len(hist) :
           /\ hist[k].count = k
           /\ hist[k].stores >= 1
           /\ hist[k].dec >= 1
           /\ hist[k].hashes = rounds
           /\ hist[k].bhashes = rounds
    /\ Succeeded =>
           /\ Len(hist) = Blocks
           /\ keylen = 0
           /\ hashCalls = 1 + Blocks * rounds
           /\ bhashCalls = Blocks * rounds

C9_Witness ==
    /\ Succeeded
    /\ origkeylen = 67 /\ rounds = 3
    /\ Len(hist) = 3 /\ hashCalls = 10

\* The value of a 4-byte big-endian field.
BigEndian32(b) == ((b[1] * 256 + b[2]) * 256 + b[3]) * 256 + b[4]

\* The XOR of the results of rounds 1 .. n of the current block.
RECURSIVE XorOfRounds(_)
XorOfRounds(n) == IF n = 0 THEN {} ELSE Xor(XorOfRounds(n - 1), trace[n].res.x)

\* C10: within block c, round 1 is bcrypt_hash(sha2pass, hash(salt ||
\* bigEndian32(c))); round k >= 2 takes as salt digest the hash of round
\* k-1's raw bcrypt_hash result; after the last round out is the XOR of all
\* `rounds` results.
C10_RoundChain ==
    pc \in {"rounds", "assemble"} =>
        /\ sha2pass = Holds(Sha512(hashFun, Msg(pass, << >>, {})))
        /\ \E t \in trace[1].salt.x :
               /\ trace[1].salt.x = {t}
               /\ t.f = hashFun
               /\ t.m.data = salt /\ t.m.blk = {}
               /\ Len(t.m.ctr) = 4
               /\ \A j \in 1 .. 4 : t.m.ctr[j] \in 0 .. 255
               /\ BigEndian32(t.m.ctr) = count
        /\ \A k \in 2 .. Len(trace) :
               trace[k].salt =
                   Holds(Sha512(hashFun, Msg(NoBytes, << >>, trace[k - 1].res.x)))
        /\ \A k \in 1 .. Len(trace) :
               trace[k].res = Holds([pass |-> sha2pass.x, salt |-> trace[k].salt.x])
        /\ Len(trace) = i
        /\ out = [init |-> TRUE, x |-> XorOfRounds(Len(trace))]
        /\ pc = "assemble" => Len(trace) = rounds

C10_Witness ==
    /\ pc = "assemble"
    /\ rounds = 3 /\ count = 2
    /\ Cardinality(out.x) = 3
====
